---- MODULE Spec2Model ----
(***************************************************************************)
(* A model of layout.py: the line rasterizer (_draw_line), the bleed       *)
(* synthesizer (_create_new_image_with_bleed and its two modes), the mark  *)
(* renderer (_draw_bleed_crop_marks), the layout planner                   *)
(* (_calculate_layout), the page composer (create_imposition_pdf) and the  *)
(* pipeline that runs them (main).                                         *)
(*                                                                         *)
(* A raster is a record [w, h, px] with px a function from <<x, y>> to an  *)
(* RGB triple.  Lengths on the page are exact rationals <<n, d>>, d > 0.   *)
(***************************************************************************)
EXTENDS Integers, Sequences, FiniteSets, TLC

VARIABLES
    raster,     \* the image a draw object paints on (draw._image / new_img)
    temp_img,   \* _draw_line's copy of the image, taken at line 122
    dl,         \* the frame of the running _draw_line call
    visited,    \* history: the stepped coordinates of the running call
    painted,    \* history: the pixels draw.point wrote in the running call
    pre,        \* history: the pixels of the image when the call began
    call,       \* history: the arguments the running call was made with
    src,        \* the decoded source image (img, width, height)
    bm,         \* the frame of the running add_bleed_and_marks call
    marksPre,   \* history: the pixels of new_img when _draw_bleed_crop_marks began
    marked,     \* history: the pixels the finished mark segments wrote
    pdf,        \* the frame of the running create_imposition_pdf call
    canvas,     \* the reportlab canvas: its page size, drawing calls and save
    mn          \* the frame of main: the configuration read and where main is

lineVars == <<raster, temp_img, dl, visited, painted, pre, call>>
bleedVars == <<src, bm, marksPre, marked>>
pageVars == <<pdf, canvas, mn>>
vars == <<lineVars, bleedVars, pageVars>>

(***************************************************************************)
(* Bounds of the model.                                                    *)
(***************************************************************************)
BufW == 4
BufH == 3
Overhang == 1
MaxStroke == 3
MaxSrc == 2
MaxBleed == 2
MaxCropMark == 2
MaxCutMark == 3
MaxCopies == 8
MarkLengthMm == 5

(***************************************************************************)
(* Rasters and colours.                                                    *)
(***************************************************************************)
White == <<255, 255, 255>>
Black == <<0, 0, 0>>

Pixels(w, h) == (0 .. w - 1) \X (0 .. h - 1)

\* Image.new("RGB", (w, h), "white")
NewImage(w, h) == [w |-> w, h |-> h, px |-> [p \in Pixels(w, h) |-> White]]

\* An artwork whose pixels all differ, so a misplaced pixel shows.
PatternPixel(x, y) ==
    <<(40 * x + 7 * y + 10) % 256, (90 * y + 3 * x + 1) % 256, (20 * (x + y) + 5) % 256>>

PatternImage(w, h) ==
    [w |-> w, h |-> h, px |-> [p \in Pixels(w, h) |-> PatternPixel(p[1], p[2])]]

\* chosen_color = (255 - r, 255 - g, 255 - b)
Inverse(c) == <<255 - c[1], 255 - c[2], 255 - c[3]>>

\* str.lower() on the colour and orientation names the model draws
Lower(s) ==
    CASE s = "Inverted" -> "inverted"
      [] s = "Landscape" -> "landscape"
      [] s = "INVERTED" -> "inverted"
      [] s = "Black" -> "black"
      [] OTHER -> s

\* the RGB value PIL resolves a fixed colour name to
NamedColor(s) ==
    CASE s = "black" -> Black
      [] s = "Black" -> Black
      [] s = "white" -> White
      [] OTHER -> Black

Abs(n) == IF n < 0 THEN -n ELSE n
Max(a, b) == IF a > b THEN a ELSE b
Min(a, b) == IF a < b THEN a ELSE b

(***************************************************************************)
(* Exact rationals <<n, d>> with d > 0 and n, d coprime, for the floats of *)
(* the layout: every operation of the code on them is +, -, *, / or a      *)
(* comparison, which the rationals carry out without rounding.             *)
(***************************************************************************)
RECURSIVE GCD(_, _)
GCD(a, b) == IF b = 0 THEN a ELSE GCD(b, a % b)

Rat(n, d) ==
    LET g == GCD(Abs(n), Abs(d))
    IN  IF d < 0 THEN <<(-n) \div g, (-d) \div g>> ELSE <<n \div g, d \div g>>

RInt(n) == <<n, 1>>

RAdd(a, b) ==
    LET g == GCD(a[2], b[2])
    IN  Rat(a[1] * (b[2] \div g) + b[1] * (a[2] \div g), (a[2] \div g) * b[2])

RNeg(a) == <<-a[1], a[2]>>
RSub(a, b) == RAdd(a, RNeg(b))

RMul(a, b) ==
    LET g1 == GCD(Abs(a[1]), b[2])
        g2 == GCD(Abs(b[1]), a[2])
    IN  Rat((a[1] \div g1) * (b[1] \div g2), (a[2] \div g2) * (b[2] \div g1))

\* a / b for b # 0
RDiv(a, b) == RMul(a, Rat(b[2], b[1]))

RLess(a, b) ==
    LET g == GCD(a[2], b[2])
    IN  a[1] * (b[2] \div g) < b[1] * (a[2] \div g)

RLeq(a, b) == ~RLess(b, a)

\* min(a, b)
RMin(a, b) == IF RLess(b, a) THEN b ELSE a

RZero == RInt(0)

(***************************************************************************)
(* _draw_line.  err is a float in the code, (dx if dx > dy else -dy) / 2;  *)
(* the frame holds twice its value, so every comparison and update of the  *)
(* loop is made on integers with both sides doubled.                       *)
(***************************************************************************)
NoLine == [pc |-> "idle"]

\* the arguments of a call, kept as they were passed (the loop overwrites x1, y1)
CallArgs(x1, y1, x2, y2, color, width) ==
    [x1 |-> x1, y1 |-> y1, x2 |-> x2, y2 |-> y2, color |-> color, width |-> width]

\* lines 118-122: dx, dy, sx, sy, err and the copy of the image
LineFrame(x1, y1, x2, y2, image_width, image_height, color, width) ==
    LET dx == Abs(x2 - x1)
        dy == Abs(y2 - y1)
    IN  [pc |-> "stamp", x1 |-> x1, y1 |-> y1, x2 |-> x2, y2 |-> y2,
         dx |-> dx, dy |-> dy,
         sx |-> IF x1 < x2 THEN 1 ELSE -1,
         sy |-> IF y1 < y2 THEN 1 ELSE -1,
         err |-> IF dx > dy THEN dx ELSE -dy,
         image_width |-> image_width, image_height |-> image_height,
         color |-> color, width |-> width]

\* range(-(width // 2), (width + 1) // 2)
StampOffsets(width) == (-(width \div 2)) .. (((width + 1) \div 2) - 1)

\* line 129: the bounds check on one stamp pixel
InBounds(px, py, image_width, image_height) ==
    /\ 0 <= px /\ px < image_width
    /\ 0 <= py /\ py < image_height

\* line 124: the stamp is painted only when the stepped coordinate is inside
CentreGuard(f) == InBounds(f.x1, f.y1, f.image_width, f.image_height)

\* lines 125-129: the pixels one stamp writes
StampPixels(f) ==
    IF CentreGuard(f)
    THEN {p \in {<<f.x1 + i, f.y1 + j>> : i \in StampOffsets(f.width),
                                         j \in StampOffsets(f.width)} :
             InBounds(p[1], p[2], f.image_width, f.image_height)}
    ELSE {}

\* the colour at p were the inverse taken of the image as it is being drawn on
ChosenColorLive(f, snapshot, p) ==
    IF Lower(f.color) = "inverted" THEN Inverse(raster.px[p]) ELSE NamedColor(f.color)

\* lines 130-134: the colour written at p
ChosenColor(f, snapshot, p) ==
    IF Lower(f.color) = "inverted" THEN Inverse(snapshot[p]) ELSE NamedColor(f.color)

\* lines 124-135: one stamp
LineStamp ==
    /\ dl.pc = "stamp"
    /\ LET P == StampPixels(dl)
       IN  /\ raster' = [raster EXCEPT !.px =
                            [p \in DOMAIN raster.px |->
                                IF p \in P THEN ChosenColor(dl, temp_img, p)
                                ELSE raster.px[p]]]
           /\ painted' = painted \cup P
    /\ visited' = Append(visited, <<dl.x1, dl.y1>>)
    /\ dl' = [dl EXCEPT !.pc = "test"]
    /\ UNCHANGED <<temp_img, pre, call, bleedVars, pageVars>>

\* lines 136-137: the endpoint is reached
LineBreak ==
    /\ dl.pc = "test"
    /\ dl.x1 = dl.x2 /\ dl.y1 = dl.y2
    /\ dl' = [dl EXCEPT !.pc = "done"]
    /\ UNCHANGED <<raster, temp_img, visited, painted, pre, call, bleedVars, pageVars>>

\* one step were the y test made against dx
SteppedAgainstDx(f) ==
    LET e2 == f.err
        stepX == e2 > -(2 * f.dx)
        stepY == e2 < 2 * f.dx
    IN  [f EXCEPT !.err = f.err - (IF stepX THEN 2 * f.dy ELSE 0)
                              + (IF stepY THEN 2 * f.dx ELSE 0),
                  !.x1 = IF stepX THEN f.x1 + f.sx ELSE f.x1,
                  !.y1 = IF stepY THEN f.y1 + f.sy ELSE f.y1,
                  !.pc = "stamp"]

\* lines 138-144: one Bresenham step
Stepped(f) ==
    LET e2 == f.err
        stepX == e2 > -(2 * f.dx)
        stepY == e2 < 2 * f.dy
    IN  [f EXCEPT !.err = f.err - (IF stepX THEN 2 * f.dy ELSE 0)
                              + (IF stepY THEN 2 * f.dx ELSE 0),
                  !.x1 = IF stepX THEN f.x1 + f.sx ELSE f.x1,
                  !.y1 = IF stepY THEN f.y1 + f.sy ELSE f.y1,
                  !.pc = "stamp"]

LineStep ==
    /\ dl.pc = "test"
    /\ ~(dl.x1 = dl.x2 /\ dl.y1 = dl.y2)
    /\ dl' = Stepped(dl)
    /\ UNCHANGED <<raster, temp_img, visited, painted, pre, call, bleedVars, pageVars>>

(***************************************************************************)
(* PIL's crop, transpose and paste on rasters.  A region is a raster.      *)
(***************************************************************************)
\* img.crop((left, upper, right, lower)); PIL fills what lies outside img with 0
Crop(img, left, upper, right, lower) ==
    [w |-> right - left, h |-> lower - upper,
     px |-> [q \in Pixels(right - left, lower - upper) |->
                IF InBounds(left + q[1], upper + q[2], img.w, img.h)
                THEN img.px[<<left + q[1], upper + q[2]>>]
                ELSE Black]]

\* region.transpose(Image.FLIP_LEFT_RIGHT)
FlipLeftRight(r) ==
    [r EXCEPT !.px = [q \in Pixels(r.w, r.h) |-> r.px[<<r.w - 1 - q[1], q[2]>>]]]

\* region.transpose(Image.FLIP_TOP_BOTTOM)
FlipTopBottom(r) ==
    [r EXCEPT !.px = [q \in Pixels(r.w, r.h) |-> r.px[<<q[1], r.h - 1 - q[2]>>]]]

\* dst.paste(region, (x, y)): the part of the region inside dst replaces dst
Paste(dst, r, x, y) ==
    [dst EXCEPT !.px = [p \in Pixels(dst.w, dst.h) |->
                           IF InBounds(p[1] - x, p[2] - y, r.w, r.h)
                           THEN r.px[<<p[1] - x, p[2] - y>>]
                           ELSE dst.px[p]]]

(***************************************************************************)
(* add_bleed_and_marks: _create_new_image_with_bleed, then                 *)
(* _draw_bleed_crop_marks on the new image.                                *)
(***************************************************************************)
NoBleed == [pc |-> "idle"]

\* the frame at the call of add_bleed_and_marks, after _open_image (line 180)
BleedFrame(bleed_size, crop_mark_length, crop_mark_color, bleed_mode, cut_mark_length) ==
    [pc |-> "create", i |-> 0, seg |-> 1, bleed_size |-> bleed_size,
     bleed_mode |-> bleed_mode, crop_mark_length |-> crop_mark_length,
     cut_mark_length |-> cut_mark_length, crop_mark_color |-> crop_mark_color,
     result |-> "pending"]

\* lines 100-103: the white image with the source pasted at (bleed, bleed)
NewImageWithSource(img, bleed_size) ==
    Paste(NewImage(img.w + 2 * bleed_size, img.h + 2 * bleed_size), img,
          bleed_size, bleed_size)

\* lines 100-110: create the image and pick the mode; an unknown mode raises
\* ValueError, which add_bleed_and_marks catches (lines 190-192) to return None
BleedCreate ==
    /\ bm.pc = "create"
    /\ \/ /\ bm.bleed_mode = "repeat"
          /\ raster' = NewImageWithSource(src, bm.bleed_size)
          /\ bm' = [bm EXCEPT !.pc = "repeat"]
       \/ /\ bm.bleed_mode = "mirror"
          /\ raster' = NewImageWithSource(src, bm.bleed_size)
          /\ bm' = [bm EXCEPT !.pc = "mirror"]
       \/ /\ bm.bleed_mode \notin {"repeat", "mirror"}
          /\ raster' = NewImageWithSource(src, bm.bleed_size)
          /\ bm' = [bm EXCEPT !.pc = "failed", !.result = "None"]
    /\ UNCHANGED <<temp_img, dl, visited, painted, pre, call, src, marksPre, marked, pageVars>>

\* lines 76-84: the eight pastes of iteration i of _add_repeat_bleed
RepeatPastes(new_img, img, width, height, bleed_size, i) ==
    LET p1 == Paste(new_img, Crop(img, 0, 0, 1, height), bleed_size - i - 1, bleed_size)
        p2 == Paste(p1, Crop(img, width - 1, 0, width, height),
                    bleed_size + width + i, bleed_size)
        p3 == Paste(p2, Crop(img, 0, 0, width, 1), bleed_size, bleed_size - i - 1)
        p4 == Paste(p3, Crop(img, 0, height - 1, width, height),
                    bleed_size, bleed_size + height + i)
        p5 == Paste(p4, Crop(img, 0, 0, 1, 1), bleed_size - i - 1, bleed_size - i - 1)
        p6 == Paste(p5, Crop(img, width - 1, 0, width, 1),
                    bleed_size + width + i, bleed_size - i - 1)
        p7 == Paste(p6, Crop(img, 0, height - 1, 1, height),
                    bleed_size - i - 1, bleed_size + height + i)
    IN  Paste(p7, Crop(img, width - 1, height - 1, width, height),
              bleed_size + width + i, bleed_size + height + i)

\* lines 75-84: one iteration of the loop; after the last one (line 112) the new
\* image goes to _draw_bleed_crop_marks (lines 186-187)
RepeatIter ==
    /\ bm.pc = "repeat"
    /\ bm.i < bm.bleed_size
    /\ raster' = RepeatPastes(raster, src, src.w, src.h, bm.bleed_size, bm.i)
    /\ bm' = [bm EXCEPT !.i = bm.i + 1,
                        !.pc = IF bm.i + 1 < bm.bleed_size THEN "repeat" ELSE "marks"]
    /\ marksPre' = IF bm.i + 1 < bm.bleed_size THEN marksPre ELSE raster'.px
    /\ UNCHANGED <<temp_img, dl, visited, painted, pre, call, src, marked, pageVars>>

\* lines 89-94: the four flipped bands of _add_mirror_bleed
MirrorPastes(new_img, img, width, height, bleed_size) ==
    LET p1 == Paste(new_img, FlipLeftRight(Crop(img, 0, 0, bleed_size, height)),
                    0, bleed_size)
        p2 == Paste(p1, FlipLeftRight(Crop(img, width - bleed_size, 0, width, height)),
                    width + bleed_size, bleed_size)
        p3 == Paste(p2, FlipTopBottom(Crop(img, 0, 0, width, bleed_size)),
                    bleed_size, 0)
    IN  Paste(p3, FlipTopBottom(Crop(img, 0, height - bleed_size, width, height)),
              bleed_size, height + bleed_size)

MirrorBleed ==
    /\ bm.pc = "mirror"
    /\ raster' = MirrorPastes(raster, src, src.w, src.h, bm.bleed_size)
    /\ bm' = [bm EXCEPT !.pc = "marks"]
    /\ marksPre' = raster'.px
    /\ UNCHANGED <<temp_img, dl, visited, painted, pre, call, src, marked, pageVars>>

\* lines 150-174: the endpoints of the twelve _draw_line calls, in order
MarkSegment(k, image_width, image_height, bleed_size, crop_mark_length, cut_mark_length) ==
    LET b == bleed_size
        c == crop_mark_length
        W == image_width
        H == image_height
        m == cut_mark_length \div 2
    IN  CASE k = 1 -> <<b - c, b, b, b>>
          [] k = 2 -> <<b, b - c, b, b>>
          [] k = 3 -> <<W - b, b - c, W - b, b>>
          [] k = 4 -> <<W - b, b, W - b + c, b>>
          [] k = 5 -> <<b - c, H - b, b, H - b>>
          [] k = 6 -> <<b, H - b, b, H - b + c>>
          [] k = 7 -> <<W - b, H - b, W - b + c, H - b>>
          [] k = 8 -> <<W - b, H - b, W - b, H - b + c>>
          [] k = 9 -> <<W \div 2 - m, b, W \div 2 + m, b>>
          [] k = 10 -> <<W \div 2 - m, H - b, W \div 2 + m, H - b>>
          [] k = 11 -> <<b, H \div 2 - m, b, H \div 2 + m>>
          [] k = 12 -> <<W - b, H \div 2 - m, W - b, H \div 2 + m>>

MarkCount == 12
MarkStroke == 2

\* one of the twelve calls of _draw_line, made when the one before has returned
DrawMark ==
    /\ bm.pc = "marks"
    /\ bm.seg <= MarkCount
    /\ dl.pc \in {"idle", "done"}
    /\ LET e == MarkSegment(bm.seg, raster.w, raster.h, bm.bleed_size,
                            bm.crop_mark_length, bm.cut_mark_length)
       IN  /\ dl' = LineFrame(e[1], e[2], e[3], e[4], raster.w, raster.h,
                              bm.crop_mark_color, MarkStroke)
           /\ call' = CallArgs(e[1], e[2], e[3], e[4], bm.crop_mark_color, MarkStroke)
    /\ temp_img' = raster.px
    /\ pre' = raster.px
    /\ visited' = <<>>
    /\ painted' = {}
    /\ marked' = marked \cup painted
    /\ bm' = [bm EXCEPT !.seg = bm.seg + 1]
    /\ UNCHANGED <<raster, src, marksPre, pageVars>>

\* line 189: the twelfth line has returned; add_bleed_and_marks returns new_img
MarksReturn ==
    /\ bm.pc = "marks"
    /\ bm.seg = MarkCount + 1
    /\ dl.pc = "done"
    /\ marked' = marked \cup painted
    /\ bm' = [bm EXCEPT !.pc = "returned", !.result = "new_img"]
    /\ UNCHANGED <<lineVars, src, marksPre, pageVars>>

(***************************************************************************)
(* create_imposition_pdf: the page size, _calculate_layout and the drawing *)
(* calls on the canvas.  Lengths are rationals; an image is [w, h, dpi].   *)
(***************************************************************************)
NoPdf == [pc |-> "idle"]
NoCanvas == [pagesize |-> <<>>, ops |-> <<>>, saved |-> FALSE]

\* reportlab.lib.units.mm = 72 / 25.4 points
Mm == Rat(360, 127)

\* str.upper() on the paper names the model draws
Upper(s) ==
    CASE s = "letter" -> "LETTER"
      [] s = "Legal" -> "LEGAL"
      [] s = "banana" -> "BANANA"
      [] OTHER -> s

\* getattr(reportlab.lib.pagesizes, NAME, None): the sizes in points of the
\* names the model draws, <<>> for None
PageSizes(name) ==
    CASE name = "LETTER" -> <<612, 792>>
      [] name = "LEGAL" -> <<612, 1008>>
      [] OTHER -> <<>>

\* img.info.get('dpi', (72, 72))
DefaultDpi == <<72, 72>>

\* lines 199-203: (pixels / dpi) * 25.4, and 25.4 = 127 / 5
ImageDimensions(image) ==
    <<RMul(Rat(image.w, image.dpi[1]), Rat(127, 5)),
      RMul(Rat(image.h, image.dpi[2]), Rat(127, 5))>>

PdfFrame(image, paper_size_name, orientation, num_copies, cut_marks, margin, spacing, imposition_mark_length) ==
    [pc |-> "paper", image |-> image, paper_size_name |-> paper_size_name,
     orientation |-> orientation, num_copies |-> num_copies, cut_marks |-> cut_marks,
     margin |-> margin, spacing |-> spacing,
     imposition_mark_length |-> imposition_mark_length,
     image_width_mm |-> RZero, image_height_mm |-> RZero,
     page_width |-> RZero, page_height |-> RZero,
     cols |-> 0, rows |-> 0, scale |-> RZero,
     scaled_width |-> RZero, scaled_height |-> RZero,
     image_positions |-> <<>>, k |-> 1, error |-> "none"]

\* lines 289-292 with _set_paper_size_and_orientation (lines 255-269): the image
\* size in mm, the page size, and the canvas; an unknown paper name or
\* orientation prints an error and ends the process (sys.exit(1))
SetPaperSize ==
    /\ pdf.pc = "paper"
    /\ LET dimensions == PageSizes(Upper(pdf.paper_size_name))
           mm == ImageDimensions(pdf.image)
           sized == [pdf EXCEPT !.image_width_mm = mm[1], !.image_height_mm = mm[2]]
       IN  \/ /\ dimensions = <<>>
              /\ pdf' = [sized EXCEPT !.pc = "exit", !.error = "InvalidPaperSize"]
              /\ UNCHANGED canvas
           \/ /\ dimensions # <<>>
              /\ Lower(pdf.orientation) = "landscape"
              /\ pdf' = [sized EXCEPT !.pc = "grid",
                                      !.page_width = RInt(dimensions[2]),
                                      !.page_height = RInt(dimensions[1])]
              /\ canvas' = [pagesize |-> <<dimensions[2], dimensions[1]>>,
                            ops |-> <<>>, saved |-> FALSE]
           \/ /\ dimensions # <<>>
              /\ Lower(pdf.orientation) = "portrait"
              /\ pdf' = [sized EXCEPT !.pc = "grid",
                                      !.page_width = RInt(dimensions[1]),
                                      !.page_height = RInt(dimensions[2])]
              /\ canvas' = [pagesize |-> <<dimensions[1], dimensions[2]>>,
                            ops |-> <<>>, saved |-> FALSE]
           \/ /\ dimensions # <<>>
              /\ Lower(pdf.orientation) \notin {"landscape", "portrait"}
              /\ pdf' = [sized EXCEPT !.pc = "exit", !.error = "InvalidOrientation"]
              /\ UNCHANGED canvas
    /\ UNCHANGED <<lineVars, bleedVars, mn>>

\* int(math.sqrt(n))
ISqrt(n) == CHOOSE r \in 0 .. n : r * r <= n /\ n < (r + 1) * (r + 1)

\* the row count were the division rounded down
FloorDiv(num_copies, cols) == num_copies \div cols

\* (num_copies + cols - 1) // cols
CeilDiv(num_copies, cols) == (num_copies + cols - 1) \div cols

\* lines 213-214: the first grid
GridInit ==
    /\ pdf.pc = "grid"
    /\ LET cols == ISqrt(pdf.num_copies)
       IN  pdf' = [pdf EXCEPT !.cols = cols, !.rows = CeilDiv(pdf.num_copies, cols),
                              !.pc = "loop"]
    /\ UNCHANGED <<lineVars, bleedVars, canvas, mn>>

\* lines 217-220: one more column lowers the row count and is adopted
GridGrow ==
    /\ pdf.pc = "loop"
    /\ LET temp_cols == pdf.cols + 1
           temp_rows == CeilDiv(pdf.num_copies, temp_cols)
       IN  /\ temp_rows < pdf.rows
           /\ pdf' = [pdf EXCEPT !.rows = temp_rows, !.cols = temp_cols]
    /\ UNCHANGED <<lineVars, bleedVars, canvas, mn>>

\* lines 221-222: it does not, and the loop ends
GridStop ==
    /\ pdf.pc = "loop"
    /\ ~(CeilDiv(pdf.num_copies, pdf.cols + 1) < pdf.rows)
    /\ pdf' = [pdf EXCEPT !.pc = "place"]
    /\ UNCHANGED <<lineVars, bleedVars, canvas, mn>>

\* lines 224-227: the uniform scale
LayoutScale(f) ==
    LET available_width == RSub(f.page_width, RMul(RInt(2), f.margin))
        available_height == RSub(f.page_height, RMul(RInt(2), f.margin))
        max_width == RDiv(RSub(available_width, RMul(RInt(f.cols - 1), f.spacing)),
                          RInt(f.cols))
        max_height == RDiv(RSub(available_height, RMul(RInt(f.rows - 1), f.spacing)),
                           RInt(f.rows))
    IN  RMin(RDiv(max_width, f.image_width_mm), RDiv(max_height, f.image_height_mm))

\* lines 234-235: the origin of the copy in cell (row, col)
CopyPosition(f, scaled_width, scaled_height, row, col) ==
    <<RAdd(f.margin, RMul(RInt(col), RAdd(scaled_width, f.spacing))),
      RSub(RSub(f.page_height, f.margin),
           RMul(RInt(row + 1), RAdd(scaled_height, f.spacing)))>>

\* lines 230-236: row-major over the grid, the cells below num_copies only
LayoutPositions(f, scaled_width, scaled_height) ==
    [c \in 1 .. Min(f.num_copies, f.rows * f.cols) |->
        CopyPosition(f, scaled_width, scaled_height, (c - 1) \div f.cols, (c - 1) % f.cols)]

\* lines 224-238: scale, scaled size and positions; _calculate_layout returns
PlaceCopies ==
    /\ pdf.pc = "place"
    /\ LET scale == LayoutScale(pdf)
           scaled_width == RMul(pdf.image_width_mm, scale)
           scaled_height == RMul(pdf.image_height_mm, scale)
       IN  pdf' = [pdf EXCEPT !.scale = scale,
                              !.scaled_width = scaled_width,
                              !.scaled_height = scaled_height,
                              !.image_positions =
                                  LayoutPositions(pdf, scaled_width, scaled_height),
                              !.k = 1,
                              !.pc = "draw"]
    /\ UNCHANGED <<lineVars, bleedVars, canvas, mn>>

\* lines 243-250: the eight c.line calls of _draw_cut_marks
CutMarks(x, y, width, height, mark_length) ==
    LET top == RAdd(y, height)
        right == RAdd(x, width)
        seg(a, b, c, d) == [op |-> "line", x1 |-> a, y1 |-> b, x2 |-> c, y2 |-> d]
    IN  <<seg(x, top, RAdd(x, mark_length), top),
          seg(x, top, x, RSub(top, mark_length)),
          seg(right, top, RSub(right, mark_length), top),
          seg(right, top, right, RSub(top, mark_length)),
          seg(x, y, RAdd(x, mark_length), y),
          seg(x, y, x, RAdd(y, mark_length)),
          seg(right, y, RSub(right, mark_length), y),
          seg(right, y, right, RAdd(y, mark_length))>>

\* lines 276-279: one copy: c.drawImage, and its cut marks when enabled
DrawCopy ==
    /\ pdf.pc = "draw"
    /\ pdf.k <= Len(pdf.image_positions)
    /\ LET pos == pdf.image_positions[pdf.k]
           image == [op |-> "drawImage", x |-> pos[1], y |-> pos[2],
                     width |-> pdf.scaled_width, height |-> pdf.scaled_height]
           marks == IF pdf.cut_marks
                    THEN CutMarks(pos[1], pos[2], pdf.scaled_width, pdf.scaled_height,
                                  RMul(pdf.imposition_mark_length, Mm))
                    ELSE <<>>
       IN  canvas' = [canvas EXCEPT !.ops = canvas.ops \o <<image>> \o marks]
    /\ pdf' = [pdf EXCEPT !.k = pdf.k + 1]
    /\ UNCHANGED <<lineVars, bleedVars, mn>>

\* line 300: c.save()
SaveCanvas ==
    /\ pdf.pc = "draw"
    /\ pdf.k > Len(pdf.image_positions)
    /\ canvas' = [canvas EXCEPT !.saved = TRUE]
    /\ pdf' = [pdf EXCEPT !.pc = "saved"]
    /\ UNCHANGED <<lineVars, bleedVars, mn>>

(***************************************************************************)
(* main, from the configuration read at lines 327-343.                     *)
(***************************************************************************)
NoMain == [pc |-> "idle"]

\* lines 330-343: the settings; margin and spacing are converted to points
MainFrame(file_ok, dpi, bleed_size, crop_mark_length, crop_mark_color, bleed_mode, cut_mark_length, paper_size_name, orientation, num_copies, cut_marks, margin, spacing, imposition_mark_length) ==
    [pc |-> "start", file_ok |-> file_ok, dpi |-> dpi, bleed_size |-> bleed_size,
     crop_mark_length |-> crop_mark_length, crop_mark_color |-> crop_mark_color,
     bleed_mode |-> bleed_mode, cut_mark_length |-> cut_mark_length,
     paper_size_name |-> paper_size_name, orientation |-> orientation,
     num_copies |-> num_copies, cut_marks |-> cut_marks,
     margin |-> RMul(margin, Mm), spacing |-> RMul(spacing, Mm),
     imposition_mark_length |-> imposition_mark_length,
     processed_image |-> "unset", exit |-> "running"]

\* lines 345-347 and 180: with a positive bleed_size, add_bleed_and_marks opens
\* the image (a file that cannot be opened ends the process, lines 68-70)
MainBleed ==
    /\ mn.pc = "start"
    /\ mn.bleed_size > 0
    /\ \/ /\ mn.file_ok
          /\ bm' = BleedFrame(mn.bleed_size, mn.crop_mark_length, mn.crop_mark_color,
                              mn.bleed_mode, mn.cut_mark_length)
          /\ mn' = [mn EXCEPT !.pc = "bleeding"]
       \/ /\ ~mn.file_ok
          /\ mn' = [mn EXCEPT !.pc = "exited", !.exit = "ImageDecodeError"]
          /\ UNCHANGED bm
    /\ UNCHANGED <<lineVars, src, marksPre, marked, pdf, canvas>>

\* lines 351-352: without bleed the opened image is used as it is
MainOpenOnly ==
    /\ mn.pc = "start"
    /\ ~(mn.bleed_size > 0)
    /\ \/ /\ mn.file_ok
          /\ mn' = [mn EXCEPT !.pc = "impose", !.processed_image = "img"]
       \/ /\ ~mn.file_ok
          /\ mn' = [mn EXCEPT !.pc = "exited", !.exit = "ImageDecodeError"]
    /\ UNCHANGED <<lineVars, bleedVars, pdf, canvas>>

\* lines 348-350: add_bleed_and_marks returned None
MainBleedFailed ==
    /\ mn.pc = "bleeding"
    /\ bm.pc = "failed"
    /\ mn' = [mn EXCEPT !.pc = "exited", !.exit = "BleedFailed"]
    /\ UNCHANGED <<lineVars, bleedVars, pdf, canvas>>

\* line 346: add_bleed_and_marks returned the new image
MainBleedDone ==
    /\ mn.pc = "bleeding"
    /\ bm.pc = "returned"
    /\ mn' = [mn EXCEPT !.pc = "impose", !.processed_image = "new_img"]
    /\ UNCHANGED <<lineVars, bleedVars, pdf, canvas>>

\* lines 354-355: the call of create_imposition_pdf; an image made by Image.new
\* carries no dpi, the opened one carries the file's
MainImpose ==
    /\ mn.pc = "impose"
    /\ LET image == IF mn.processed_image = "new_img"
                    THEN [w |-> raster.w, h |-> raster.h, dpi |-> DefaultDpi]
                    ELSE [w |-> src.w, h |-> src.h, dpi |-> mn.dpi]
       IN  pdf' = PdfFrame(image, mn.paper_size_name, mn.orientation, mn.num_copies,
                           mn.cut_marks, mn.margin, mn.spacing, mn.imposition_mark_length)
    /\ mn' = [mn EXCEPT !.pc = "imposing"]
    /\ UNCHANGED <<lineVars, bleedVars, canvas>>

\* the sys.exit(1) of _set_paper_size_and_orientation ends main
MainPaperExit ==
    /\ mn.pc = "imposing"
    /\ pdf.pc = "exit"
    /\ mn' = [mn EXCEPT !.pc = "exited", !.exit = pdf.error]
    /\ UNCHANGED <<lineVars, bleedVars, pdf, canvas>>

\* line 356: the PDF is written
MainDone ==
    /\ mn.pc = "imposing"
    /\ pdf.pc = "saved"
    /\ mn' = [mn EXCEPT !.pc = "done", !.exit = "ok"]
    /\ UNCHANGED <<lineVars, bleedVars, pdf, canvas>>

(***************************************************************************)
(* The layout planner and the page composer on their own: one              *)
(* create_imposition_pdf call.                                             *)
(***************************************************************************)
PaperNames == {"letter", "Legal", "banana"}
Orientations == {"portrait", "Landscape", "sideways"}
DpiInfos == {DefaultDpi, <<300, 150>>}
LayoutMargins == {0, 36, 306}
LayoutSpacings == {0, 18, 650}

InitLayout ==
    /\ \E w \in 1 .. MaxSrc, h \in 1 .. MaxSrc, dpi \in DpiInfos,
          paper_size_name \in PaperNames, orientation \in Orientations,
          num_copies \in 1 .. MaxCopies, cut_marks \in BOOLEAN,
          margin \in LayoutMargins, spacing \in LayoutSpacings :
          /\ src = PatternImage(w, h)
          /\ pdf = PdfFrame([w |-> w, h |-> h, dpi |-> dpi], paper_size_name,
                            orientation, num_copies, cut_marks, RInt(margin),
                            RInt(spacing), RInt(MarkLengthMm))
    /\ canvas = NoCanvas
    /\ mn = NoMain
    /\ raster = src
    /\ temp_img = src.px
    /\ pre = src.px
    /\ marksPre = src.px
    /\ dl = NoLine
    /\ call = NoLine
    /\ bm = NoBleed
    /\ visited = <<>>
    /\ painted = {}
    /\ marked = {}

NextLayout ==
    \/ SetPaperSize
    \/ GridInit
    \/ GridGrow
    \/ GridStop
    \/ PlaceCopies
    \/ DrawCopy
    \/ SaveCanvas

SpecLayout == InitLayout /\ [][NextLayout]_vars

(***************************************************************************)
(* The bleed synthesizer and the mark renderer on their own: one           *)
(* add_bleed_and_marks call on a small source image.                       *)
(***************************************************************************)
BleedModes == {"repeat", "mirror", "stretch"}
MarkColors == {"inverted", "black"}

InitBleed ==
    /\ \E w \in 1 .. MaxSrc, h \in 1 .. MaxSrc : src = PatternImage(w, h)
    /\ \E bleed_size \in 1 .. MaxBleed, crop_mark_length \in 0 .. MaxCropMark,
          cut_mark_length \in 0 .. MaxCutMark, bleed_mode \in BleedModes,
          crop_mark_color \in MarkColors :
          bm = BleedFrame(bleed_size, crop_mark_length, crop_mark_color, bleed_mode,
                          cut_mark_length)
    /\ raster = src
    /\ temp_img = src.px
    /\ pre = src.px
    /\ marksPre = src.px
    /\ dl = NoLine
    /\ call = NoLine
    /\ visited = <<>>
    /\ painted = {}
    /\ marked = {}
    /\ pdf = NoPdf
    /\ canvas = NoCanvas
    /\ mn = NoMain

NextBleed ==
    \/ BleedCreate
    \/ RepeatIter
    \/ MirrorBleed
    \/ DrawMark
    \/ LineStamp
    \/ LineBreak
    \/ LineStep
    \/ MarksReturn

SpecBleed == InitBleed /\ [][NextBleed]_vars

(***************************************************************************)
(* The whole pipeline: main on a small source image, from the settings of  *)
(* the configuration file.  margin and spacing are in mm here.             *)
(***************************************************************************)
MainBleedSizes == {0, 1}
MainCopies == {1, 3, 4}
MainMargins == {1, 127}

InitMain ==
    /\ \E w \in 1 .. MaxSrc : src = PatternImage(w, 1)
    /\ \E file_ok \in BOOLEAN, bleed_size \in MainBleedSizes, bleed_mode \in BleedModes,
          paper_size_name \in PaperNames, orientation \in Orientations,
          num_copies \in MainCopies, cut_marks \in BOOLEAN, margin \in MainMargins :
          mn = MainFrame(file_ok, DefaultDpi, bleed_size, 1, "inverted", bleed_mode, 2,
                         paper_size_name, orientation, num_copies, cut_marks,
                         RInt(margin), RZero, RInt(MarkLengthMm))
    /\ pdf = NoPdf
    /\ canvas = NoCanvas
    /\ bm = NoBleed
    /\ raster = src
    /\ temp_img = src.px
    /\ pre = src.px
    /\ marksPre = src.px
    /\ dl = NoLine
    /\ call = NoLine
    /\ visited = <<>>
    /\ painted = {}
    /\ marked = {}

NextMain ==
    \/ MainBleed
    \/ MainOpenOnly
    \/ BleedCreate
    \/ RepeatIter
    \/ MirrorBleed
    \/ DrawMark
    \/ LineStamp
    \/ LineBreak
    \/ LineStep
    \/ MarksReturn
    \/ MainBleedFailed
    \/ MainBleedDone
    \/ MainImpose
    \/ SetPaperSize
    \/ MainPaperExit
    \/ GridInit
    \/ GridGrow
    \/ GridStop
    \/ PlaceCopies
    \/ DrawCopy
    \/ SaveCanvas
    \/ MainDone

SpecMain == InitMain /\ [][NextMain]_vars

(***************************************************************************)
(* The line rasterizer on its own: one _draw_line call on a small buffer,  *)
(* with endpoints up to Overhang pixels outside it.                        *)
(***************************************************************************)
LineCoordsX == (-Overhang) .. (BufW - 1 + Overhang)
LineCoordsY == (-Overhang) .. (BufH - 1 + Overhang)
LineColors == {"inverted", "black"}

InitLine ==
    /\ raster \in {NewImage(BufW, BufH), PatternImage(BufW, BufH)}
    /\ temp_img = raster.px
    /\ pre = raster.px
    /\ \E x1 \in LineCoordsX, x2 \in LineCoordsX, y1 \in LineCoordsY, y2 \in LineCoordsY,
          color \in LineColors, width \in 1 .. MaxStroke :
          /\ dl = LineFrame(x1, y1, x2, y2, raster.w, raster.h, color, width)
          /\ call = CallArgs(x1, y1, x2, y2, color, width)
    /\ visited = <<>>
    /\ painted = {}
    /\ src = raster
    /\ bm = NoBleed
    /\ marksPre = raster.px
    /\ marked = {}
    /\ pdf = NoPdf
    /\ canvas = NoCanvas
    /\ mn = NoMain

NextLine == LineStamp \/ LineBreak \/ LineStep

SpecLine == InitLine /\ [][NextLine]_vars

(***************************************************************************)
(* Properties of one _draw_line call.                                      *)
(***************************************************************************)
\* the square of side width centred on (x, y), clipped to the w x h buffer
Footprint(x, y, width, w, h) ==
    {p \in Pixels(w, h) : /\ (p[1] - x) \in StampOffsets(width)
                          /\ (p[2] - y) \in StampOffsets(width)}

\* the clipped footprints of all the coordinates stepped so far
Covered == UNION {Footprint(visited[k][1], visited[k][2], call.width, raster.w, raster.h) :
                     k \in 1 .. Len(visited)}

LineLength == Max(Abs(call.x2 - call.x1), Abs(call.y2 - call.y1))

\* C7: in inverted colour mode, at every point of one _draw_line call, each
\* pixel written by at least one stamp of the call holds the inverse of the
\* value it had before the call, however many stamps covered it, and each
\* pixel no stamp wrote holds its value from before the call.
C7_InvertedOnce ==
    (dl.pc # "idle" /\ Lower(call.color) = "inverted") =>
        \A p \in Pixels(raster.w, raster.h) :
            raster.px[p] = IF p \in painted THEN Inverse(pre[p]) ELSE pre[p]

\* a finished inverted line of stroke 2 or more with two stamps on one pixel,
\* and a pixel no stamp reached
C7_Witness ==
    /\ dl.pc = "done" /\ Lower(call.color) = "inverted" /\ call.width >= 2
    /\ pre = PatternImage(raster.w, raster.h).px
    /\ \E j \in 1 .. Len(visited), k \in 1 .. Len(visited) :
          /\ j < k
          /\ InBounds(visited[j][1], visited[j][2], raster.w, raster.h)
          /\ InBounds(visited[k][1], visited[k][2], raster.w, raster.h)
          /\ Footprint(visited[j][1], visited[j][2], call.width, raster.w, raster.h)
               \cap Footprint(visited[k][1], visited[k][2], call.width, raster.w, raster.h)
               \cap painted # {}
    /\ painted # Pixels(raster.w, raster.h)

\* C8: at every point of a _draw_line call the pixels written are exactly the
\* in-buffer pixels of the stamps of the coordinates stepped so far, also the
\* stamps whose centre is outside the buffer, and nothing outside the buffer
\* is written.
C8_StampClippedPerPixel ==
    dl.pc # "idle" =>
        /\ painted = Covered
        /\ painted \subseteq Pixels(raster.w, raster.h)
        /\ DOMAIN raster.px = Pixels(raster.w, raster.h)

Clamp(n, lo, hi) == IF n < lo THEN lo ELSE IF n > hi THEN hi ELSE n

\* the source pixel nearest to pixel p of the image with bleed
NearestSource(p) ==
    src.px[<<Clamp(p[1] - bm.bleed_size, 0, src.w - 1),
             Clamp(p[2] - bm.bleed_size, 0, src.h - 1)>>]

\* the synthesized image is complete and no mark is drawn yet
SynthesisDone == bm.pc = "marks" /\ bm.seg = 1

\* C4: in mirror mode with bleed_size >= the source width or height, the
\* synthesizer fails and never yields an image with bleed.
C4_MirrorTooSmallFails ==
    (bm.pc # "idle" /\ bm.bleed_mode = "mirror"
        /\ (bm.bleed_size >= src.w \/ bm.bleed_size >= src.h)) =>
        /\ bm.pc \in {"create", "mirror", "failed"}
        /\ bm.result # "new_img"

\* C5: in repeat mode every pixel of the border ring of the synthesized image,
\* side bands and corner squares alike, equals the nearest source edge pixel.
C5_RepeatRingNearest ==
    (SynthesisDone /\ bm.bleed_mode = "repeat") =>
        \A p \in Pixels(raster.w, raster.h) : raster.px[p] = NearestSource(p)

\* C9: after the twelve mark segments are drawn in inverted colour, every pixel
\* a segment wrote holds the inverse of its value before the marks were drawn.
C9_MarksInverted ==
    (bm.pc = "returned" /\ Lower(bm.crop_mark_color) = "inverted") =>
        \A p \in marked : raster.px[p] = Inverse(marksPre[p])

(***************************************************************************)
(* Properties of create_imposition_pdf.                                    *)
(***************************************************************************)
\* _calculate_layout has returned its plan
Planned == pdf.pc \in {"draw", "saved"}

\* the copy at pos lies inside the page less the margin
InsideMargins(pos) ==
    /\ RLeq(pdf.margin, pos[1])
    /\ RLeq(RAdd(pos[1], pdf.scaled_width), RSub(pdf.page_width, pdf.margin))
    /\ RLeq(pdf.margin, pos[2])
    /\ RLeq(RAdd(pos[2], pdf.scaled_height), RSub(pdf.page_height, pdf.margin))

\* C1: with spacing >= 0 and a positive scale, every position of the plan
\* places its copy inside the page less the margin on all four sides.
C1_PositionsInsideMargins ==
    (Planned /\ RLeq(RZero, pdf.spacing) /\ RLess(RZero, pdf.scale)) =>
        \A k \in 1 .. Len(pdf.image_positions) : InsideMargins(pdf.image_positions[k])

\* C2: the column search ends (cols grows by one per iteration and never
\* passes num_copies) with a grid that holds every copy and has no empty
\* last row: rows * cols >= num_copies > (rows - 1) * cols.
C2_GridHoldsCopies ==
    /\ pdf.pc = "loop" =>
          /\ 1 <= pdf.cols /\ pdf.cols <= pdf.num_copies
          /\ 1 <= pdf.rows
          /\ ENABLED (GridGrow \/ GridStop)
    /\ pdf.pc \in {"place", "draw", "saved"} =>
          /\ pdf.rows * pdf.cols >= pdf.num_copies
          /\ (pdf.rows - 1) * pdf.cols < pdf.num_copies
          /\ pdf.cols <= pdf.num_copies

\* a finished search that adopted at least one larger column count and ends
\* with a partly filled last row
C2_Witness ==
    /\ pdf.pc = "place"
    /\ pdf.cols > ISqrt(pdf.num_copies)
    /\ pdf.rows >= 2
    /\ pdf.rows * pdf.cols > pdf.num_copies

\* C3: a scale <= 0 makes the planner fail with ScaleNonPositive: no plan, no
\* position and no drawing call on the canvas.
C3_ScaleNonPositiveFails ==
    (Planned /\ RLeq(pdf.scale, RZero)) =>
        /\ pdf.error = "ScaleNonPositive"
        /\ pdf.image_positions = <<>>
        /\ canvas.ops = <<>>

(***************************************************************************)
(* Properties of main.                                                     *)
(***************************************************************************)
\* the paper size or the orientation of the configuration is not a valid one
InvalidPage ==
    \/ PageSizes(Upper(mn.paper_size_name)) = <<>>
    \/ Lower(mn.orientation) \notin {"portrait", "landscape"}

\* bleed synthesis or mark rendering has worked on a raster
RasterWorkBegun == bm.pc \notin {"idle", "create"}

\* C6: in a run whose paper size or orientation is invalid, no bleed synthesis
\* and no mark rendering step ever occurs: the error comes first.
C6_InvalidPageBeforeRaster ==
    (mn.pc # "idle" /\ InvalidPage) => ~RasterWorkBegun

====
